---- MODULE Spec2Model ----
(***************************************************************************)
(* VibeVC (src/vibevc.py): a local snapshot versioning tool.               *)
(*                                                                         *)
(* The state is what the tool keeps on disk: the working tree under the    *)
(* repository root, the snapshot store .vibevc/snapshots, the manifest     *)
(* document .vibevc/manifest.json.  The wall clock is an input of commit:  *)
(* the second it reads is never before a second a snapshot folder or a     *)
(* record already carries.  A path is a sequence of name segments; a tree maps the paths of its     *)
(* files to their content.  Every command of the CLI is one action that    *)
(* models the whole handler; an I/O error in a copy and a process crash    *)
(* are actions of their own that stop the commit handler part-way.         *)
(***************************************************************************)
EXTENDS Naturals, Sequences, FiniteSets, TLC

VARIABLES repoExists, wt, snapDirs, snapFiles, manifestFile

vars == <<repoExists, wt, snapDirs, snapFiles, manifestFile>>

(***************************************************************************)
(* Bounds of the model.                                                    *)
(***************************************************************************)
\* the number of snapshot folders the commits may create
MaxCommits == 2

(***************************************************************************)
(* Configuration and the inputs the commands are called with.              *)
(***************************************************************************)
REPO_DIR_NAME == ".vibevc"

IGNORE_PATTERNS ==
    {REPO_DIR_NAME, "__pycache__", ".git", ".DS_Store", "venv", ".idea", ".vscode"}

\* file contents the user writes
Contents == {"hello", "world"}

\* the files the user creates and edits: two tracked ones, one in a
\* subdirectory, and one that the ignore policy excludes
EditPaths == {<<"a.txt">>, <<"d", "b.txt">>, <<".DS_Store">>}

\* what the user writes to each: a.txt is the file that gets rewritten
EditContents(p) == IF p = <<"a.txt">> THEN Contents ELSE {"hello"}

\* version_tag=None (and the empty string, which is falsy as well)
NoTag == <<>>

\* explicit version tags: a plain name and one that extends it with a path
\* separator ("v1/x"); the generated tags are the other plain names
Tags == {<<"v1">>, <<"v1", "x">>}

Messages == {"initial"}

\* the seconds the clock is read in: two commits fall into the same second
\* or into different ones
Seconds == {0, 1}

\* datetime.now().strftime("%Y%m%d%H%M%S") of second n of the clock
IdFmt(n) ==
    <<"20261102080000", "20261102080001">>[n + 1]

\* datetime.now().strftime("%Y-%m-%d %H:%M:%S") of second n of the clock
TimestampFmt(n) ==
    <<"2026-11-02 08:00:00", "2026-11-02 08:00:01">>[n + 1]

\* every tag a command can be given or can generate
AllTags == Tags \cup {<<IdFmt(n)>> : n \in Seconds}

(***************************************************************************)
(* Paths and trees.                                                        *)
(***************************************************************************)
EmptyTree == [p \in {} |-> "hello"]

IsPrefix(s, t) == Len(s) <= Len(t) /\ SubSeq(t, 1, Len(s)) = s

Parent(p) == SubSeq(p, 1, Len(p) - 1)

\* the names of the model in the order of Python's string comparison
NameOrder == <<".DS_Store", "a.txt", "b.txt", "d", "x">>

NameRank(n) == CHOOSE i \in 1..Len(NameOrder) : NameOrder[i] = n

\* str(p) < str(q) for the relative paths of the model (none of its names
\* holds a character below the separator, so comparing segment by segment
\* is comparing the joined strings)
RECURSIVE PathLess(_, _)
PathLess(p, q) ==
    IF p = <<>> THEN q # <<>>
    ELSE IF q = <<>> THEN FALSE
    ELSE IF p[1] = q[1] THEN PathLess(Tail(p), Tail(q))
    ELSE NameRank(p[1]) < NameRank(q[1])

\* sorted(file_list)
RECURSIVE SortPaths(_)
SortPaths(S) ==
    IF S = {} THEN <<>>
    ELSE LET m == CHOOSE p \in S : \A q \in S \ {p} : PathLess(p, q)
         IN  <<m>> \o SortPaths(S \ {m})

\* a directory or a file of that name is skipped by the walk
Ignored(p) == \E i \in 1..Len(p) : p[i] \in IGNORE_PATTERNS

\* the tracked files of the tree under the root, sorted
_get_files(directory) == SortPaths({p \in DOMAIN directory : ~Ignored(p)})

NoDigest == "None"

\* hashlib.md5 of the contents of the model
MD5(c) ==
    CASE c = "hello" -> "5d41402abc4b2a76b9719d911017c592"
      [] c = "world" -> "7d793037a0760186574b0282f2f435e7"

_hash_file(tree, filepath) ==
    IF filepath \in DOMAIN tree THEN MD5(tree[filepath]) ELSE NoDigest

(***************************************************************************)
(* The manifest document.                                                  *)
(***************************************************************************)
\* the document before init creates it
AbsentManifest == [state |-> "absent", records |-> <<>>]

\* the document cut short by a write that did not finish: not JSON
CorruptManifest == [state |-> "corrupt", records |-> <<>>]

_load_manifest ==
    IF manifestFile.state = "valid" THEN manifestFile.records ELSE <<>>

\* the document after open(..., 'w') and json.dump ran to the end
_save_manifest(data) == [state |-> "valid", records |-> data]

\* the entries with the tag, in manifest order: <<>> stands for None
_get_commit_by_tag(tag) ==
    LET manifest == _load_manifest
        hits == {i \in 1..Len(manifest) : manifest[i].version = tag}
    IN  IF hits = {} THEN <<>>
        ELSE <<manifest[CHOOSE i \in hits : \A j \in hits : i <= j]>>

(***************************************************************************)
(* The snapshot store, as paths relative to .vibevc/snapshots (<<>> is the  *)
(* snapshots directory itself): snapDirs holds the directories that the    *)
(* mkdir() of init and of commit made, snapFiles the files copied in.  The *)
(* directories that the copy loop makes are the parents of the files; one  *)
(* it made for a copy that then failed is empty, and no command of the     *)
(* model names it or lists it.                                             *)
(***************************************************************************)
\* the path is a directory of the store
DirExists(p) ==
    \/ p \in snapDirs
    \/ \E f \in DOMAIN snapFiles : IsPrefix(p, f) /\ f # p

\* Path.exists()
SnapExists(p) == DirExists(p) \/ p \in DOMAIN snapFiles

\* mutant: mkdir(exist_ok=True)
MkdirOutcome_ExistOk(folder) ==
    IF ~DirExists(Parent(folder)) THEN "FileNotFoundError" ELSE "ok"

\* Path.mkdir() without parents and without exist_ok
MkdirOutcome(folder) ==
    IF SnapExists(folder) THEN "FileExistsError"
    ELSE IF ~DirExists(Parent(folder)) THEN "FileNotFoundError"
    ELSE "ok"

\* os.walk of a snapshot folder: the relative paths of the files under it
ListSnapshot(folder) ==
    {SubSeq(f, Len(folder) + 1, Len(f)) :
        f \in {g \in DOMAIN snapFiles : IsPrefix(folder, g) /\ g # folder}}

\* the snapshot folders the commits have created
SnapshotFolders == snapDirs \ {<<>>}

(***************************************************************************)
(* The clock.                                                              *)
(***************************************************************************)
\* the seconds some snapshot folder or some record was stamped with
StampedSeconds ==
    {n \in Seconds :
        \/ <<IdFmt(n)>> \in snapDirs
        \/ \E i \in 1..Len(manifestFile.records) :
              manifestFile.records[i].id = IdFmt(n)}

\* what datetime.now() may read: time does not run backwards
Clock == {n \in Seconds : \A s \in StampedSeconds : s <= n}

(***************************************************************************)
(* The state as one value: what a handler is called in, and what it leaves. *)
(***************************************************************************)
Here ==
    [repoExists |-> repoExists, wt |-> wt, snapDirs |-> snapDirs,
     snapFiles |-> snapFiles, manifestFile |-> manifestFile]

\* the step to the state s
Becomes(s) ==
    /\ repoExists' = s.repoExists
    /\ wt' = s.wt
    /\ snapDirs' = s.snapDirs
    /\ snapFiles' = s.snapFiles
    /\ manifestFile' = s.manifestFile

(***************************************************************************)
(* init                                                                    *)
(***************************************************************************)
initAfter ==
    IF repoExists THEN Here
    ELSE [Here EXCEPT !.repoExists = TRUE,
                      !.snapDirs = {<<>>},
                      !.manifestFile = _save_manifest(<<>>)]

init ==
    /\ initAfter.repoExists
    /\ Becomes(initAfter)

(***************************************************************************)
(* commit                                                                  *)
(***************************************************************************)
\* the tag the commit runs under: the given one, or unique_id
CommitTag(version_tag, n) ==
    IF version_tag # NoTag THEN version_tag ELSE <<IdFmt(n)>>

\* mutant: the lookup of the given tag in the manifest is left out
CommitOutcome_NoLookup(version_tag, n) ==
    IF ~repoExists THEN "NoRepo"
    ELSE IF MkdirOutcome(CommitTag(version_tag, n)) # "ok"
    THEN MkdirOutcome(CommitTag(version_tag, n))
    ELSE "Saved"

\* how far the handler gets before it touches the snapshot store: the two
\* early returns, the exception of snapshot_folder.mkdir(), or through
CommitOutcome(version_tag, n) ==
    IF ~repoExists THEN "NoRepo"
    ELSE IF version_tag # NoTag /\ _get_commit_by_tag(version_tag) # <<>>
    THEN "DuplicateVersion"
    ELSE IF MkdirOutcome(CommitTag(version_tag, n)) # "ok"
    THEN MkdirOutcome(CommitTag(version_tag, n))
    ELSE "Saved"

\* mutant: the copy loop stops one file short
CopiedFiles_SkipsLast(folder, files, k) ==
    LET new == {folder \o files[i] : i \in 1..(k - 1)}
    IN  [f \in DOMAIN snapFiles \cup new |->
            IF f \in new THEN wt[SubSeq(f, Len(folder) + 1, Len(f))]
            ELSE snapFiles[f]]

\* the files of the store once the first k files have been copied
CopiedFiles(folder, files, k) ==
    LET new == {folder \o files[i] : i \in 1..k}
    IN  [f \in DOMAIN snapFiles \cup new |->
            IF f \in new THEN wt[SubSeq(f, Len(folder) + 1, Len(f))]
            ELSE snapFiles[f]]

\* mutant: _hash_file is given the relative path, cannot open it and
\* answers None
file_tracking_RelPath(files, k) ==
    [p \in {files[i] : i \in 1..k} |-> NoDigest]

\* file_tracking after the first k files
file_tracking(files, k) ==
    [p \in {files[i] : i \in 1..k} |-> _hash_file(wt, p)]

CommitRecord(message, version_tag, n, files) ==
    [version   |-> CommitTag(version_tag, n),
     id        |-> IdFmt(n),
     timestamp |-> TimestampFmt(n),
     message   |-> message,
     file_map  |-> file_tracking(files, Len(files))]

\* the commit gets to make a snapshot folder, and the model has room for it
CanSnapshot(version_tag, n) ==
    /\ CommitOutcome(version_tag, n) = "Saved"
    /\ Cardinality(SnapshotFolders) < MaxCommits

\* mutant: manifest.insert(0, ...) in place of manifest.append(...)
commitAfter_Prepend(message, version_tag, n) ==
    IF CommitOutcome(version_tag, n) # "Saved" THEN Here
    ELSE LET folder == CommitTag(version_tag, n)
             files == _get_files(wt)
         IN  [Here EXCEPT
                !.snapDirs = snapDirs \cup {folder},
                !.snapFiles = CopiedFiles(folder, files, Len(files)),
                !.manifestFile =
                    _save_manifest(<<CommitRecord(message, version_tag, n, files)>>
                                   \o _load_manifest)]

\* mutant: shutil.move in place of shutil.copy2
commitAfter_Moves(message, version_tag, n) ==
    IF CommitOutcome(version_tag, n) # "Saved" THEN Here
    ELSE LET folder == CommitTag(version_tag, n)
             files == _get_files(wt)
         IN  [Here EXCEPT
                !.wt = [p \in {q \in DOMAIN wt : Ignored(q)} |-> wt[p]],
                !.snapDirs = snapDirs \cup {folder},
                !.snapFiles = CopiedFiles(folder, files, Len(files)),
                !.manifestFile =
                    _save_manifest(Append(_load_manifest,
                                          CommitRecord(message, version_tag, n, files)))]

\* the state the handler leaves when it runs to its end
commitAfter(message, version_tag, n) ==
    IF CommitOutcome(version_tag, n) # "Saved" THEN Here
    ELSE LET folder == CommitTag(version_tag, n)
             files == _get_files(wt)
         IN  [Here EXCEPT
                !.snapDirs = snapDirs \cup {folder},
                !.snapFiles = CopiedFiles(folder, files, Len(files)),
                !.manifestFile =
                    _save_manifest(Append(_load_manifest,
                                          CommitRecord(message, version_tag, n, files)))]

commit(message, version_tag, n) ==
    /\ CommitOutcome(version_tag, n) = "Saved" => CanSnapshot(version_tag, n)
    /\ Becomes(commitAfter(message, version_tag, n))

\* mutant: the record is appended and saved before the copy loop
commitCopyFailsAfter_SavedFirst(message, version_tag, n, k) ==
    LET folder == CommitTag(version_tag, n)
        files == _get_files(wt)
    IN  [Here EXCEPT
           !.snapDirs = snapDirs \cup {folder},
           !.snapFiles = CopiedFiles(folder, files, k - 1),
           !.manifestFile =
               _save_manifest(Append(_load_manifest,
                                     CommitRecord(message, version_tag, n, files)))]

\* the state the handler leaves when shutil.copy2 raises on the k-th file:
\* the folder is made and k-1 files are copied
commitCopyFailsAfter(message, version_tag, n, k) ==
    LET folder == CommitTag(version_tag, n)
        files == _get_files(wt)
    IN  [Here EXCEPT
           !.snapDirs = snapDirs \cup {folder},
           !.snapFiles = CopiedFiles(folder, files, k - 1)]

commitCopyFails(message, version_tag, n, k) ==
    /\ CanSnapshot(version_tag, n)
    /\ k \in 1..Len(_get_files(wt))
    /\ Becomes(commitCopyFailsAfter(message, version_tag, n, k))

\* the state left when the process dies after the copy loop has copied k
\* files, before the manifest is opened for writing
commitCrashInCopyAfter(message, version_tag, n, k) ==
    LET folder == CommitTag(version_tag, n)
        files == _get_files(wt)
    IN  [Here EXCEPT
           !.snapDirs = snapDirs \cup {folder},
           !.snapFiles = CopiedFiles(folder, files, k)]

commitCrashInCopy(message, version_tag, n, k) ==
    /\ CanSnapshot(version_tag, n)
    /\ k \in 0..Len(_get_files(wt))
    /\ Becomes(commitCrashInCopyAfter(message, version_tag, n, k))

\* the state left when the process dies inside _save_manifest: open(..., 'w')
\* has truncated the document and json.dump has not written all of it
commitCrashInSaveAfter(message, version_tag, n) ==
    LET folder == CommitTag(version_tag, n)
        files == _get_files(wt)
    IN  [Here EXCEPT
           !.snapDirs = snapDirs \cup {folder},
           !.snapFiles = CopiedFiles(folder, files, Len(files)),
           !.manifestFile = CorruptManifest]

commitCrashInSave(message, version_tag, n) ==
    /\ CanSnapshot(version_tag, n)
    /\ Becomes(commitCrashInSaveAfter(message, version_tag, n))

(***************************************************************************)
(* log                                                                     *)
(***************************************************************************)
\* the versions printed, the newest first
LogResult ==
    LET manifest == _load_manifest
    IN  [i \in 1..Len(manifest) |-> manifest[Len(manifest) + 1 - i].version]

logAfter == Here

log ==
    /\ Len(LogResult) = Len(_load_manifest)
    /\ Becomes(logAfter)

(***************************************************************************)
(* status                                                                  *)
(***************************************************************************)
\* mutant: manifest[0] in place of manifest[-1]
last_commit_First == _load_manifest[1]

\* manifest[-1]
last_commit == _load_manifest[Len(_load_manifest)]

\* mutant: the loop over last_file_map is left out
StatusLists_NoDeleted ==
    LET last_file_map == last_commit.file_map
        current_files == _get_files(wt)
        current == {current_files[i] : i \in 1..Len(current_files)}
    IN  [modified  |-> {f \in current : /\ f \in DOMAIN last_file_map
                                        /\ _hash_file(wt, f) # last_file_map[f]},
         new_files |-> {f \in current : f \notin DOMAIN last_file_map},
         deleted   |-> {}]

\* mutant: the comparison of the digests is the wrong way round
StatusLists_HashInverted ==
    LET last_file_map == last_commit.file_map
        current_files == _get_files(wt)
        current == {current_files[i] : i \in 1..Len(current_files)}
    IN  [modified  |-> {f \in current : /\ f \in DOMAIN last_file_map
                                        /\ _hash_file(wt, f) = last_file_map[f]},
         new_files |-> {f \in current : f \notin DOMAIN last_file_map},
         deleted   |-> {f \in DOMAIN last_file_map : f \notin current}]

\* the three lists of the comparison with the last commit, as sets
StatusLists ==
    LET last_file_map == last_commit.file_map
        current_files == _get_files(wt)
        current == {current_files[i] : i \in 1..Len(current_files)}
    IN  [modified  |-> {f \in current : /\ f \in DOMAIN last_file_map
                                        /\ _hash_file(wt, f) # last_file_map[f]},
         new_files |-> {f \in current : f \notin DOMAIN last_file_map},
         deleted   |-> {f \in DOMAIN last_file_map : f \notin current}]

NoLists == [modified |-> {}, new_files |-> {}, deleted |-> {}]

\* what status prints
StatusResult ==
    IF ~repoExists THEN [kind |-> "not initialized", lists |-> NoLists]
    ELSE IF _load_manifest = <<>> THEN [kind |-> "No commits yet", lists |-> NoLists]
    ELSE IF StatusLists = NoLists THEN [kind |-> "clean", lists |-> NoLists]
    ELSE [kind |-> "changes", lists |-> StatusLists]

statusAfter == Here

status ==
    /\ StatusResult.kind \in {"not initialized", "No commits yet", "clean", "changes"}
    /\ Becomes(statusAfter)

(***************************************************************************)
(* restore                                                                 *)
(***************************************************************************)
\* the safety check of restore: is_dirty after its loop
is_dirty ==
    LET last_file_map == last_commit.file_map
        current_files == _get_files(wt)
    IN  \E i \in 1..Len(current_files) :
            \/ current_files[i] \notin DOMAIN last_file_map
            \/ _hash_file(wt, current_files[i]) # last_file_map[current_files[i]]

\* mutant: the tag is not looked up in the manifest
RestoreOutcome_NoLookup(version_tag, force) ==
    IF ~repoExists THEN "NoRepo"
    ELSE IF ~force /\ _load_manifest # <<>> /\ is_dirty THEN "DirtyWorkingTree"
    ELSE "Restored"

\* mutant: the safety check runs whether or not force is given
RestoreOutcome_ForceIgnored(version_tag, force) ==
    IF ~repoExists THEN "NoRepo"
    ELSE IF _get_commit_by_tag(version_tag) = <<>> THEN "VersionNotFound"
    ELSE IF _load_manifest # <<>> /\ is_dirty THEN "DirtyWorkingTree"
    ELSE "Restored"

RestoreOutcome(version_tag, force) ==
    IF ~repoExists THEN "NoRepo"
    ELSE IF _get_commit_by_tag(version_tag) = <<>> THEN "VersionNotFound"
    ELSE IF ~force /\ _load_manifest # <<>> /\ is_dirty THEN "DirtyWorkingTree"
    ELSE "Restored"

\* mutant: the wipe is left out
WipedTree_Skipped == wt

\* mutant: the wipe passes over every entry named in IGNORE_PATTERNS
WipedTree_KeepsIgnored == [p \in {q \in DOMAIN wt : q[1] \in IGNORE_PATTERNS} |-> wt[p]]

\* the root after the wipe: every entry but the metadata directory is gone
WipedTree == EmptyTree

\* mutant: the copy back walks the snapshot of the last commit
RestoredTree_LastCommit(target_snapshot) ==
    LET snapshot_files_raw == ListSnapshot(last_commit.version)
        wiped == WipedTree
    IN  [p \in DOMAIN wiped \cup snapshot_files_raw |->
            IF p \in snapshot_files_raw THEN snapFiles[last_commit.version \o p]
            ELSE wiped[p]]

\* the root after the copy back of the files found under the snapshot
RestoredTree(target_snapshot) ==
    LET snapshot_files_raw == ListSnapshot(target_snapshot)
        wiped == WipedTree
    IN  [p \in DOMAIN wiped \cup snapshot_files_raw |->
            IF p \in snapshot_files_raw THEN snapFiles[target_snapshot \o p]
            ELSE wiped[p]]

\* the state the handler leaves
restoreAfter(version_tag, force) ==
    IF RestoreOutcome(version_tag, force) # "Restored" THEN Here
    ELSE [Here EXCEPT !.wt = RestoredTree(version_tag)]

restore(version_tag, force) ==
    /\ RestoreOutcome(version_tag, force)
           \in {"NoRepo", "VersionNotFound", "DirtyWorkingTree", "Restored"}
    /\ Becomes(restoreAfter(version_tag, force))

(***************************************************************************)
(* diff                                                                    *)
(***************************************************************************)
\* the lines diff prints: the path and how it differs from the snapshot
DiffResult(version_tag) ==
    IF ~repoExists \/ _load_manifest = <<>> THEN [kind |-> "nothing", lines |-> {}]
    ELSE LET tag == IF version_tag # NoTag THEN version_tag ELSE last_commit.version
             current_files == {p \in DOMAIN wt : ~Ignored(p)}
             snapshot_files == ListSnapshot(tag)
             snap == [p \in snapshot_files |-> snapFiles[tag \o p]]
         IN  IF ~SnapExists(tag) THEN [kind |-> "VersionNotFound", lines |-> {}]
             ELSE [kind |-> "diff",
                   lines |->
                      {<<"differs", f>> : f \in
                          {g \in current_files \cap snapshot_files :
                              _hash_file(wt, g) # _hash_file(snap, g)}}
                      \cup {<<"New", f>> : f \in current_files \ snapshot_files}
                      \cup {<<"Deleted", f>> : f \in snapshot_files \ current_files}]

diffAfter(version_tag) == Here

diff(version_tag) ==
    /\ DiffResult(version_tag).kind \in {"nothing", "VersionNotFound", "diff"}
    /\ Becomes(diffAfter(version_tag))

(***************************************************************************)
(* The user.                                                               *)
(***************************************************************************)
\* the user writes a file of the working tree
WriteFile(p, c) ==
    /\ wt' = [q \in DOMAIN wt \cup {p} |-> IF q = p THEN c ELSE wt[q]]
    /\ UNCHANGED <<repoExists, snapDirs, snapFiles, manifestFile>>

\* the user removes a file of the working tree
DeleteFile(p) ==
    /\ p \in DOMAIN wt
    /\ wt' = [q \in DOMAIN wt \ {p} |-> wt[q]]
    /\ UNCHANGED <<repoExists, snapDirs, snapFiles, manifestFile>>

(***************************************************************************)
(* The specification.                                                      *)
(***************************************************************************)
Init ==
    /\ repoExists = FALSE
    /\ wt = EmptyTree
    /\ snapDirs = {}
    /\ snapFiles = EmptyTree
    /\ manifestFile = AbsentManifest

\* the index of a file in the scan
FileIndex == 0..Cardinality(DOMAIN wt)

Next ==
    \/ init
    \/ \E m \in Messages, t \in Tags \cup {NoTag}, n \in Clock : commit(m, t, n)
    \/ \E m \in Messages, t \in Tags \cup {NoTag}, n \in Clock, k \in FileIndex :
          commitCopyFails(m, t, n, k)
    \/ log
    \/ status
    \/ \E t \in AllTags, force \in BOOLEAN : restore(t, force)
    \/ \E t \in AllTags \cup {NoTag} : diff(t)
    \/ \E p \in EditPaths : \E c \in EditContents(p) : WriteFile(p, c)
    \/ \E p \in EditPaths : DeleteFile(p)

Spec == Init /\ [][Next]_vars

\* the same with a process that may be killed during a commit
NextCrash ==
    \/ Next
    \/ \E m \in Messages, t \in Tags \cup {NoTag}, n \in Clock, k \in FileIndex :
          commitCrashInCopy(m, t, n, k)
    \/ \E m \in Messages, t \in Tags \cup {NoTag}, n \in Clock :
          commitCrashInSave(m, t, n)

SpecCrash == Init /\ [][NextCrash]_vars

\* the tool used with two plain version tags, one after the other
PlainTags == {<<"v1">>, <<"v2">>}

NextPlain ==
    \/ init
    \/ \E m \in Messages, t \in PlainTags, n \in Clock : commit(m, t, n)
    \/ status
    \/ \E t \in PlainTags, force \in BOOLEAN : restore(t, force)
    \/ \E p \in EditPaths : \E c \in EditContents(p) : WriteFile(p, c)
    \/ \E p \in EditPaths : DeleteFile(p)

SpecPlain == Init /\ [][NextPlain]_vars

(***************************************************************************)
(* Properties.  A claim about what a command does is stated of the state   *)
(* the handler leaves (commitAfter, restoreAfter, ...), in every reachable *)
(* state and for every argument of the model.                              *)
(***************************************************************************)
\* the records of the manifest document
Records == manifestFile.records

\* the records of the manifest document of a state
RecordsIn(s) == s.manifestFile.records

\* the manifest holds a record of the version
HasVersion(t) == \E i \in 1..Len(Records) : Records[i].version = t

\* the record of the version (the first, as the lookup finds it)
RecordOf(t) ==
    Records[CHOOSE i \in 1..Len(Records) :
                /\ Records[i].version = t
                /\ \A j \in 1..(i - 1) : Records[j].version # t]

AutoTags == {<<IdFmt(n)>> : n \in Seconds}

\* C1: in every reachable state no two Commit Records of the manifest have
\* the same version, whether the commits gave a tag or had one generated.
C1_VersionsUnique ==
    \A i, j \in 1..Len(Records) :
        i # j => Records[i].version # Records[j].version

\* C1 witness: two records, one under a generated tag and one under a given
\* tag
C1_Witness ==
    /\ Len(Records) = 2
    /\ \E i \in 1..2 : Records[i].version \in AutoTags
    /\ \E i \in 1..2 : Records[i].version \in Tags

\* C2: whenever status reports any New, Modified or Deleted path, a restore
\* without force of an existing version is refused with DirtyWorkingTree and
\* leaves the working tree and the manifest as they were.
C2_DirtyGuard ==
    [][\A t \in AllTags :
          (HasVersion(t) /\ StatusResult.kind = "changes" /\ restore(t, FALSE))
              => /\ RestoreOutcome(t, FALSE) = "DirtyWorkingTree"
                 /\ UNCHANGED <<wt, manifestFile>>]_vars

\* C3: a commit called with an explicit tag that the manifest already holds
\* is refused as DuplicateVersion, and the manifest, the snapshot store and
\* the working tree are after the call what they were before it.
C3_DuplicateRejected ==
    \A m \in Messages, t \in Tags, n \in Clock :
        HasVersion(t)
            => /\ CommitOutcome(t, n) = "DuplicateVersion"
               /\ commitAfter(m, t, n) = Here

\* C3 witness: a version is recorded under an explicit tag, there is room
\* for another snapshot, and the working tree has changed since
C3_Witness ==
    \E t \in Tags :
        /\ HasVersion(t)
        /\ Cardinality(SnapshotFolders) < MaxCommits
        /\ StatusResult.kind = "changes"

\* the scan of a tree with the digest of every file it lists
ScanAndHash(tree) ==
    LET files == _get_files(tree)
    IN  [p \in {files[i] : i \in 1..Len(files)} |-> _hash_file(tree, p)]

\* a commit has made a snapshot folder inside the folder of the version
ExtendedBy(t) == \E f \in SnapshotFolders : IsPrefix(t, f) /\ f # t

\* C4: for a version v committed from a working tree, whatever the working
\* tree has been edited to since, restore v with force leaves a tree whose
\* scan and digests are the file_map recorded for v: the same paths, the
\* same digests (v's folder holding what the commit of v put there: no
\* later commit ran under a tag that extends v).
C4_RoundTrip ==
    \A t \in AllTags :
        (HasVersion(t) /\ ~ExtendedBy(t))
            => ScanAndHash(restoreAfter(t, TRUE).wt) = RecordOf(t).file_map

\* C4 witness: a version with two files recorded, a working tree edited
\* since to hold a file the version has not, another content for one it has
\* and an ignored file, which the forced restore replaces
C4_Witness ==
    \E t \in AllTags :
        /\ HasVersion(t) /\ ~ExtendedBy(t)
        /\ DOMAIN RecordOf(t).file_map = {<<"a.txt">>}
        /\ ScanAndHash(wt) # RecordOf(t).file_map
        /\ DOMAIN wt = EditPaths
        /\ wt[<<"a.txt">>] # snapFiles[t \o <<"a.txt">>]
        /\ restoreAfter(t, TRUE).wt # wt

\* C5: the manifest only grows at its end: whatever command runs, the
\* records before it are a prefix of the records after it; a commit that
\* goes through appends exactly one record, under its tag; init on an
\* existing repository, a refused or failed commit, status, log, diff and
\* restore, forced or not, leave the document as it is.
C5_AppendOnly ==
    /\ IsPrefix(Records, RecordsIn(initAfter))
    /\ \A m \in Messages, t \in Tags \cup {NoTag}, n \in Clock :
          LET after == RecordsIn(commitAfter(m, t, n))
          IN  /\ IsPrefix(Records, after)
              /\ IF CommitOutcome(t, n) = "Saved"
                 THEN /\ Len(after) = Len(Records) + 1
                      /\ after[Len(after)].version = CommitTag(t, n)
                 ELSE commitAfter(m, t, n).manifestFile = manifestFile
              /\ \A k \in 1..Len(_get_files(wt)) :
                    commitCopyFailsAfter(m, t, n, k).manifestFile = manifestFile
    /\ statusAfter.manifestFile = manifestFile
    /\ logAfter.manifestFile = manifestFile
    /\ \A t \in AllTags \cup {NoTag} : diffAfter(t).manifestFile = manifestFile
    /\ \A t \in AllTags, force \in BOOLEAN :
          restoreAfter(t, force).manifestFile = manifestFile

\* C5 witness: a second record has been appended behind a first
C5_Witness ==
    /\ Len(Records) = 2
    /\ Records[1].version \in Tags
    /\ Records[1].file_map # Records[2].file_map

\* C6: a process killed at any point of a commit, inside the save of the
\* manifest included, loses no record that was persisted before: what the
\* manifest loads to after a step starts with what it loaded to before.
C6_CrashKeepsHistory == [][IsPrefix(_load_manifest, _load_manifest')]_vars

\* C7: a commit persists its record only once every scanned file is in the
\* snapshot: the commit that goes through leaves each file of its scan in
\* the folder of its version with the content the working tree has, the
\* commit whose copy fails on a file leaves the manifest without a record
\* of the part-made snapshot, and no later command gives it one: every
\* record of the manifest has each file of its file_map in its folder,
\* with the digest recorded.
C7_RecordAfterCopy ==
    /\ \A r \in 1..Len(Records) :
          \A p \in DOMAIN Records[r].file_map :
              /\ Records[r].version \o p \in DOMAIN snapFiles
              /\ MD5(snapFiles[Records[r].version \o p]) = Records[r].file_map[p]
    /\ \A m \in Messages, t \in Tags \cup {NoTag}, n \in Clock :
        CommitOutcome(t, n) = "Saved" =>
            LET folder == CommitTag(t, n)
                files == _get_files(wt)
                saved == commitAfter(m, t, n)
            IN  /\ \A i \in 1..Len(files) :
                      /\ folder \o files[i] \in DOMAIN saved.snapFiles
                      /\ saved.snapFiles[folder \o files[i]] = wt[files[i]]
                /\ \A k \in 1..Len(files) :
                      LET failed == commitCopyFailsAfter(m, t, n, k)
                      IN  /\ RecordsIn(failed) = Records
                          /\ \A r \in 1..Len(RecordsIn(failed)) :
                                RecordsIn(failed)[r].version # folder

\* C7 witness: a copy has failed on the second file of a commit: the folder
\* holds the first file only and no record names it
C7_Witness ==
    \E f \in SnapshotFolders :
        /\ ~HasVersion(f)
        /\ ListSnapshot(f) = {<<"a.txt">>}
        /\ <<"d", "b.txt">> \in DOMAIN wt

\* C8: restore of a tag no record has is refused with VersionNotFound and
\* changes neither the working tree nor the manifest nor the snapshots; a
\* restore that goes on to the wipe has a snapshot folder to copy from.
C8_UnknownVersion ==
    \A t \in AllTags, force \in BOOLEAN :
        /\ (repoExists /\ ~HasVersion(t))
               => /\ RestoreOutcome(t, force) = "VersionNotFound"
                  /\ restoreAfter(t, force) = Here
        /\ RestoreOutcome(t, force) = "Restored" => DirExists(t)

\* C8 witness: a tag without a record, though an interrupted commit left a
\* folder of that name, beside a recorded version and a working tree that
\* has files to lose
C8_Witness ==
    \E t, u \in AllTags :
        /\ repoExists /\ ~HasVersion(t) /\ DirExists(t)
        /\ HasVersion(u)
        /\ DOMAIN wt # {}

\* C9: restore with force of an existing version goes through whatever
\* differs between the working tree and the last commit, and every file of
\* the snapshot of the version is in the working tree afterwards, with the
\* content the snapshot has.
C9_ForceOverrides ==
    \A t \in AllTags :
        HasVersion(t) =>
            /\ RestoreOutcome(t, TRUE) = "Restored"
            /\ \A p \in ListSnapshot(t) :
                  /\ p \in DOMAIN restoreAfter(t, TRUE).wt
                  /\ restoreAfter(t, TRUE).wt[p] = snapFiles[t \o p]

\* C9 witness: a working tree with a new and a modified file, which the
\* restore without force refuses and the forced one replaces
C9_Witness ==
    \E t \in AllTags :
        /\ HasVersion(t)
        /\ StatusResult.kind = "changes"
        /\ StatusResult.lists.new_files # {}
        /\ StatusResult.lists.modified # {}
        /\ RestoreOutcome(t, FALSE) = "DirtyWorkingTree"
        /\ ListSnapshot(t) # {}
        /\ restoreAfter(t, TRUE).wt # wt

\* C10: a path the file_map of the last commit has and the working tree
\* has not is in the Deleted list of status, and a restore that goes
\* through, of an earlier version whose snapshot holds that path, puts the
\* file back with the content of the snapshot.
C10_DeletionDetected ==
    (repoExists /\ Records # <<>>) =>
        \A p \in DOMAIN last_commit.file_map :
            p \notin DOMAIN wt =>
                /\ StatusResult.kind = "changes"
                /\ p \in StatusResult.lists.deleted
                /\ \A t \in AllTags, force \in BOOLEAN :
                      ( /\ HasVersion(t)
                        /\ t # last_commit.version
                        /\ p \in ListSnapshot(t)
                        /\ RestoreOutcome(t, force) = "Restored" )
                          => /\ p \in DOMAIN restoreAfter(t, force).wt
                             /\ restoreAfter(t, force).wt[p] = snapFiles[t \o p]

\* C10 witness: a file of the last commit has been deleted and an earlier
\* version holds it, with another content than the last commit recorded
C10_Witness ==
    /\ repoExists /\ Len(Records) = 2
    /\ \E p \in DOMAIN last_commit.file_map :
          /\ p \notin DOMAIN wt
          /\ p \in ListSnapshot(Records[1].version)
          /\ MD5(snapFiles[Records[1].version \o p]) # last_commit.file_map[p]

\* the tracked files the working tree has now
TrackedNow == {p \in DOMAIN wt : ~Ignored(p)}

\* C11: with at least one commit, status puts every path of the scan and of
\* the file_map of the last record into exactly one class: New iff it is
\* in the scan and not in the file_map, Modified iff it is in both with
\* another digest, Deleted iff it is in the file_map and not in the scan,
\* not reported iff it is in both with the same digest; the tree is
\* reported clean iff the three lists are empty.
C11_StatusClassification ==
    (repoExists /\ Records # <<>>) =>
        LET fm == Records[Len(Records)].file_map
            lists == StatusResult.lists
            reported == lists.new_files \cup lists.modified \cup lists.deleted
        IN  /\ reported \subseteq TrackedNow \cup DOMAIN fm
            /\ \A p \in TrackedNow \cup DOMAIN fm :
                  /\ p \in lists.new_files <=> (p \in TrackedNow /\ p \notin DOMAIN fm)
                  /\ p \in lists.modified <=>
                        (p \in TrackedNow /\ p \in DOMAIN fm /\ MD5(wt[p]) # fm[p])
                  /\ p \in lists.deleted <=> (p \in DOMAIN fm /\ p \notin TrackedNow)
                  /\ p \notin reported <=>
                        (p \in TrackedNow /\ p \in DOMAIN fm /\ MD5(wt[p]) = fm[p])
                  /\ Cardinality({l \in {lists.new_files, lists.modified, lists.deleted} :
                                     p \in l}) <= 1
            /\ StatusResult.kind \in {"clean", "changes"}
            /\ StatusResult.kind = "clean" <=> reported = {}

\* C11 witness: one status with a new, a modified and a deleted path, an
\* ignored file in the tree that it does not report
C11_Witness ==
    /\ repoExists /\ Records # <<>>
    /\ StatusResult.lists.new_files # {}
    /\ StatusResult.lists.modified # {}
    /\ StatusResult.lists.deleted # {}
    /\ <<".DS_Store">> \in DOMAIN wt

\* the files under the snapshot folder of a version, with their content
SnapshotOf(t) == [p \in ListSnapshot(t) |-> snapFiles[t \o p]]

\* C12: once a version is recorded, no later step adds, removes or changes
\* a file under its snapshot folder, whatever command it is and whatever
\* tag it is given.
C12_SnapshotsImmutable ==
    [][\A t \in AllTags : HasVersion(t) => SnapshotOf(t)' = SnapshotOf(t)]_vars

\* C13: a commit without a version tag, in any second the clock may read,
\* runs under a tag made of that second which no record has yet, and
\* appends a record under that tag, also in a second a commit already ran
\* in.
C13_AutoTagRecorded ==
    \A m \in Messages, n \in Clock :
        repoExists =>
            LET after == RecordsIn(commitAfter(m, NoTag, n))
            IN  /\ ~HasVersion(<<IdFmt(n)>>)
                /\ Len(after) = Len(Records) + 1
                /\ after[Len(after)].version = <<IdFmt(n)>>

CommitFrame(after, folder) ==
    /\ after.wt = wt
    /\ after.repoExists = repoExists
    /\ snapDirs \subseteq after.snapDirs
    /\ after.snapDirs \ snapDirs \subseteq {folder}
    /\ \A f \in DOMAIN snapFiles :
          f \in DOMAIN after.snapFiles /\ after.snapFiles[f] = snapFiles[f]
    /\ \A f \in DOMAIN after.snapFiles \ DOMAIN snapFiles :
          IsPrefix(folder, f) /\ folder \in after.snapDirs \ snapDirs
    /\ \/ after.manifestFile = manifestFile
       \/ /\ Len(RecordsIn(after)) = Len(Records) + 1
          /\ SubSeq(RecordsIn(after), 1, Len(Records)) = Records
          /\ folder \in after.snapDirs \ snapDirs

OnlyA(c) == [p \in {<<"a.txt">>} |-> c]

\* the steps of the scenario, each as the state the step before leaves:
\* before init
Scenario0(s) ==
    /\ ~s.repoExists
    /\ s.wt = EmptyTree
    /\ s.snapDirs = {}
    /\ s.snapFiles = EmptyTree
    /\ s.manifestFile = AbsentManifest

\* after init and the write of a.txt = "hello"
Scenario1(s) ==
    /\ s.repoExists
    /\ s.wt = OnlyA("hello")
    /\ s.snapDirs = {<<>>}
    /\ s.snapFiles = EmptyTree
    /\ s.manifestFile = _save_manifest(<<>>)

\* after commit v1
Scenario2(s) ==
    /\ s.repoExists
    /\ s.wt = OnlyA("hello")
    /\ s.snapDirs = {<<>>, <<"v1">>}
    /\ s.snapFiles = [f \in {<<"v1", "a.txt">>} |-> "hello"]
    /\ s.manifestFile.state = "valid"
    /\ Len(RecordsIn(s)) = 1
    /\ RecordsIn(s)[1].version = <<"v1">>
    /\ RecordsIn(s)[1].file_map = OnlyA(MD5("hello"))

\* after a.txt is rewritten to "world"
Scenario3(s) == Scenario2([s EXCEPT !.wt = OnlyA("hello")]) /\ s.wt = OnlyA("world")

\* after commit v2
Scenario4(s) ==
    /\ s.repoExists
    /\ s.wt = OnlyA("world")
    /\ s.snapDirs = {<<>>, <<"v1">>, <<"v2">>}
    /\ s.snapFiles = [f \in {<<"v1", "a.txt">>, <<"v2", "a.txt">>} |->
                         IF f[1] = "v1" THEN "hello" ELSE "world"]
    /\ s.manifestFile.state = "valid"
    /\ Len(RecordsIn(s)) = 2
    /\ RecordsIn(s)[1].version = <<"v1">>
    /\ RecordsIn(s)[1].file_map = OnlyA(MD5("hello"))
    /\ RecordsIn(s)[2].version = <<"v2">>
    /\ RecordsIn(s)[2].file_map = OnlyA(MD5("world"))

\* after restore v1 with force
Scenario5(s) == Scenario4([s EXCEPT !.wt = OnlyA("world")]) /\ s.wt = OnlyA("hello")

\* C16: init, a.txt = "hello", commit v1, a.txt = "world" (status then
\* lists a.txt as modified and nothing else), commit v2, restore v1 with
\* force: a.txt is "hello" again and the manifest holds the records of v1
\* and v2, in that order, as before the restore.  Each step is taken from
\* the state the one before leaves.
C16_Scenario ==
    /\ Scenario0(Here) => Scenario1([initAfter EXCEPT !.wt = OnlyA("hello")])
    /\ Scenario1(Here) =>
          \A m \in Messages, n \in Clock : Scenario2(commitAfter(m, <<"v1">>, n))
    /\ Scenario2(Here) => Scenario3([Here EXCEPT !.wt = OnlyA("world")])
    /\ Scenario3(Here) =>
          /\ StatusResult.kind = "changes"
          /\ StatusResult.lists =
                [modified |-> {<<"a.txt">>}, new_files |-> {}, deleted |-> {}]
          /\ \A m \in Messages, n \in Clock : Scenario4(commitAfter(m, <<"v2">>, n))
    /\ Scenario4(Here) =>
          /\ RestoreOutcome(<<"v1">>, TRUE) = "Restored"
          /\ Scenario5(restoreAfter(<<"v1">>, TRUE))
          /\ restoreAfter(<<"v1">>, TRUE).wt[<<"a.txt">>] = "hello"
          /\ restoreAfter(<<"v1">>, TRUE).manifestFile = manifestFile
          /\ [i \in 1..2 |-> RecordsIn(restoreAfter(<<"v1">>, TRUE))[i].version]
                = << <<"v1">>, <<"v2">> >>

\* C16 witness: the state at the end of the scenario
C16_Witness == Scenario5(Here)

\* C17: in every reachable state, a commit that a failed copy stopped
\* included, the snapshot store has a folder for a tag iff the manifest has
\* a record of that version, so that restore, which looks the tag up in
\* the manifest, and diff, which looks for the folder, take the same tags.
C17_StoreAgreesWithManifest ==
    \A t \in AllTags :
        /\ DirExists(t) <=> HasVersion(t)
        /\ (repoExists /\ Records # <<>>) =>
              (RestoreOutcome(t, TRUE) = "Restored" <=> DiffResult(t).kind = "diff")

\* C18: after a restore that goes through, forced or not, the files under
\* the root are the files of the snapshot folder of the version, no more
\* and no fewer, with the content the folder has; whatever else the root
\* held, the ignored files included, is gone.
C18_RestoreLeavesSnapshotOnly ==
    \A t \in AllTags, force \in BOOLEAN :
        RestoreOutcome(t, force) = "Restored" =>
            /\ restoreAfter(t, force).wt = SnapshotOf(t)
            /\ \A p \in DOMAIN restoreAfter(t, force).wt : ~Ignored(p)
            /\ \A p \in DOMAIN wt \ ListSnapshot(t) :
                  p \notin DOMAIN restoreAfter(t, force).wt

\* C18 witness: a restore without force goes through on a tree that is
\* clean but for an ignored file and an empty snapshot is not the reason:
\* the ignored file goes, the tracked files of the snapshot stay
C18_Witness ==
    \E t \in AllTags :
        /\ HasVersion(t)
        /\ RestoreOutcome(t, FALSE) = "Restored"
        /\ <<".DS_Store">> \in DOMAIN wt
        /\ ListSnapshot(t) = {<<"a.txt">>, <<"d", "b.txt">>}
        /\ restoreAfter(t, FALSE).wt # wt

\* a record has been appended in the step: a commit has gone through
CommitSaved == Len(Records') = Len(Records) + 1

DiffersFromLast(v) ==
    \E p \in ListSnapshot(v) :
        \/ p \notin DOMAIN Records[Len(Records)].file_map
        \/ MD5(snapFiles[v \o p]) # Records[Len(Records)].file_map[p]

\* C20: restore leaves the manifest, and with it the record that status
\* and the safety check compare against, as it is: a forced restore of a
\* version v leaves the files of v's snapshot; and in a state whose working
\* tree is the snapshot of a version with a file that the last record has
\* not or has with another digest, status reports changes against the last
\* record, restore without force of every version is refused, and restore
\* with force goes through.
C20_BaselineIsLastRecord ==
    \A v \in AllTags :
        HasVersion(v) =>
            /\ restoreAfter(v, TRUE).wt = SnapshotOf(v)
            /\ restoreAfter(v, TRUE).manifestFile = manifestFile
            /\ (wt = SnapshotOf(v) /\ DiffersFromLast(v)) =>
                  /\ StatusResult.kind = "changes"
                  /\ StatusResult.lists.new_files \cup StatusResult.lists.modified # {}
                  /\ \A u \in AllTags :
                        HasVersion(u) =>
                            /\ RestoreOutcome(u, FALSE) = "DirtyWorkingTree"
                            /\ restoreAfter(u, FALSE) = Here
                            /\ RestoreOutcome(u, TRUE) = "Restored"

\* C20 witness: the working tree is the snapshot of the first of two
\* versions, restored over a tree that was clean, and the last record has
\* another digest for a.txt
C20_Witness ==
    /\ Len(Records) = 2
    /\ wt = SnapshotOf(Records[1].version)
    /\ <<"a.txt">> \in DOMAIN wt
    /\ <<"a.txt">> \in DOMAIN Records[2].file_map
    /\ MD5(wt[<<"a.txt">>]) # Records[2].file_map[<<"a.txt">>]
    /\ DiffersFromLast(Records[1].version)
    /\ RestoreOutcome(Records[2].version, FALSE) = "DirtyWorkingTree"

====
